---- MODULE Spec2Model ----
(***************************************************************************)
(* fas-rs: frame aware scheduling.                                         *)
(*                                                                         *)
(*   SpecFrame  fas-rs-fw/src/scheduler/frame.rs  (Scheduler::process_load *)
(*              and the jank detector)                                     *)
(*   SpecCtl    src/cpu_common/mod.rs  (Controller, used as an API: any    *)
(*              sequence of init_game / init_default / fas_update_freq)    *)
(*   Spec       src/framework/scheduler/looper/utils.rs  (Looper, with the *)
(*              Controller it owns)                                        *)
(*                                                                         *)
(* Durations are in nanoseconds (std::time::Duration is an integer count   *)
(* of nanoseconds), Instants of the looper are in seconds, frequencies in  *)
(* kHz as in cpufreq, f64 weights in tenths, f64 factors in thousandths.   *)
(***************************************************************************)
EXTENDS Integers, Sequences, FiniteSets, TLC

VARIABLES
    \* ---- fas-rs-fw Scheduler::process_load (frame.rs)
    pc_frame,          \* "idle" | "ticked": has process_load run
    tick_target_fps,   \* the target_fps argument of the last process_load
    sensor_frametimes, \* what sensor.frametimes(target_fps) returned to it
    sensor_fps,        \* what sensor.fps() returned to it
    controller_cmds,   \* commands the last process_load gave the controller
    \* ---- Looper (utils.rs)
    state,             \* State::NotWorking | Waiting | Working
    delay_timer,       \* Instant recorded by enable_fas
    now,               \* the clock Instant::now() reads
    buffer,            \* Option<Buffer>
    topapp_pids,       \* windows_watcher.topapp_pids()
    \* ---- Controller (cpu_common/mod.rs)
    policy_freq,
    cluster_req,       \* per policy: the last request its file received
    weighted_calculator, \* data the WeightedCalculator has accumulated
    crashed,           \* the control thread panicked
    \* ---- observation of the last operation
    call,              \* [op, ret] of the last operation
    effects,           \* what it did to its collaborators, in order
    notified,          \* history: what the extensions were last told
    \* ---- fas-rs-fw Scheduler::init_load / process_unload (frame.rs)
    sensor,            \* the frame sensor: running?, and what resume gave it
    plugged,           \* the performance controller is plugged in
    sched,             \* the last init_load / process_unload: result, calls made
    \* ---- Controller::scale_factor (cpu_common/mod.rs)
    scale,             \* its arguments and results, at target + d and target - d
    \* ---- config::read::wait_and_read (framework/config/read.rs)
    retry_count,       \* u8
    toml,              \* the shared ConfigData snapshot
    config_file,       \* what the user config file holds
    pc_config,         \* "loop" | "wait" (in wait_until_update) | "exited"
    attempts           \* history: the current run of failed attempts

frame_vars  == <<pc_frame, tick_target_fps, sensor_frametimes, sensor_fps, controller_cmds>>
looper_vars == <<state, delay_timer, now, buffer, topapp_pids>>
ctl_vars    == <<policy_freq, cluster_req, weighted_calculator, crashed>>
obs_vars    == <<call, effects, notified>>
sched_vars  == <<sensor, plugged, sched>>
\* what no Looper, Controller or process_load step touches
config_vars == <<retry_count, toml, config_file, pc_config, attempts>>
other_vars  == <<sched_vars, scale, config_vars>>
vars        == <<frame_vars, looper_vars, ctl_vars, obs_vars, other_vars>>

\* ------------------------------------------------------------------ bounds
MaxWindow == 2      \* longest enumerated frame window / Buffer window
MaxTime   == 4      \* the clock stops advancing here (seconds)
MaxFails  == 13     \* the history stops counting failed attempts here

\* =========================================================================
\*  fas-rs-fw/src/scheduler/frame.rs
\* =========================================================================

NanosPerSec == 1000000000

\* Duration::from_secs(1) / target_fps : Duration / u32 truncates to whole ns.
target_frametime(target_fps) == NanosPerSec \div target_fps

\* target_frametime * 30 / 29 : Duration * u32 is exact, / u32 truncates.
\* floor(30a/29) = a + floor(a/29), written so that 30a is never formed.
jank_bound(target_fps) ==
    target_frametime(target_fps) + (target_frametime(target_fps) \div 29)

\* avg_fps <= target_fps - 3 on u32 (Fps and TargetFps are both u32: the
\* comparison type-checks and Duration is divided by target_fps).  Without
\* overflow checks target_fps - 3 wraps to 2^32 - (3 - target_fps) when
\* target_fps < 3, which is above every avg_fps below 2^32 - 3, so above
\* every avg_fps the model enumerates.
fps_below_band(avg_fps, target_fps) ==
    IF target_fps >= 3 THEN avg_fps <= target_fps - 3 ELSE TRUE

jank_all_frames(frametime, avg_fps, target_fps) ==
    \/ frametime = <<>>
    \/ fps_below_band(avg_fps, target_fps)
    \/ \A i \in 1..Len(frametime) : frametime[i] > jank_bound(target_fps)

jank_band_off_by_one(frametime, avg_fps, target_fps) ==
    \/ frametime = <<>>
    \/ avg_fps <= target_fps - 2
    \/ \E i \in 1..Len(frametime) : frametime[i] > jank_bound(target_fps)

jank(frametime, avg_fps, target_fps) ==
    \/ frametime = <<>>
    \/ fps_below_band(avg_fps, target_fps)
    \/ \E i \in 1..Len(frametime) : frametime[i] > jank_bound(target_fps)

load_command_swapped(is_jank) == IF is_jank THEN "limit" ELSE "release"

\* if unlikely(jank(..)) { controller.release() } else { controller.limit() }
load_command(is_jank) == IF is_jank THEN "release" ELSE "limit"

\* ---- inputs
TargetFpsSet == {1, 2, 3, 30, 60}

\* nine frames of 16 ms and one of 20 ms
ScenarioWindow == [i \in 1..10 |-> IF i = 10 THEN 20000000 ELSE 16000000]

FrameChoices(t) ==
    {jank_bound(t) - 1, jank_bound(t), jank_bound(t) + 1, 16000000, 20000000}

SeqsUpTo(S, n) == UNION {[1..k -> S] : k \in 0..n}

Windows(t) == SeqsUpTo(FrameChoices(t), MaxWindow) \cup {ScenarioWindow}

FpsChoices(t) == {f \in {0, t - 4, t - 3, t - 2, t, 58} : f >= 0}

FrameIdle ==
    /\ pc_frame = "idle"
    /\ tick_target_fps = 0
    /\ sensor_frametimes = <<>>
    /\ sensor_fps = 0
    /\ controller_cmds = <<>>

process_load(target_fps, frametimes, fps) ==
    /\ pc_frame' = "ticked"
    /\ tick_target_fps' = target_fps
    /\ sensor_frametimes' = frametimes
    /\ sensor_fps' = fps
    /\ controller_cmds' = <<load_command(jank(frametimes, fps, target_fps))>>

ProcessLoad ==
    \E t \in TargetFpsSet :
        \E w \in Windows(t) :
            \E f \in FpsChoices(t) :
                process_load(t, w, f)

\* =========================================================================
\*  Observation: what an operation did to its collaborators
\* =========================================================================

Event(kind, name, pid, pkg, policy, freq, weight, ok) ==
    [kind |-> kind, name |-> name, pid |-> pid, pkg |-> pkg,
     policy |-> policy, freq |-> freq, weight |-> weight, ok |-> ok]

\* extension.tigger_extentions(Api::name) / (Api::name(pid, pkg))
Ext(api, name, pid, pkg) == Event(api, name, pid, pkg, -1, 0, 0, TRUE)

\* one tigger_extentions call per protocol version, oldest first
Broadcast(name, pid, pkg) ==
    <<Ext("ApiV0", name, pid, pkg), Ext("ApiV1", name, pid, pkg),
      Ext("ApiV2", name, pid, pkg)>>

\* self.cleaner.cleanup() / self.cleaner.undo_cleanup()
Cleaner(name) == Event("cleaner", name, 0, "", -1, 0, 0, TRUE)

IsWrite(e) == e.kind \in {"write_freq", "reset_freq"}
IsNotify(e) == e.kind \in {"ApiV0", "ApiV1", "ApiV2"}

\* =========================================================================
\*  src/cpu_common/mod.rs : Controller
\* =========================================================================

BASE_FREQ == 600000

\* isize::MAX of a 32-bit target; on a 64-bit target the saturation points
\* are only further away from [min_freq, max_freq].
IsizeMax == 2147483647
IsizeMin == (-IsizeMax) - 1

\* Vec<Info>: the policy directories found by Controller::new
cpu_infos ==
    << [policy |-> 0, cpus |-> {0, 1, 2, 3}, freqs |-> {600000, 1200000}],
       [policy |-> 4, cpus |-> {4, 5, 6, 7}, freqs |-> {900000, 1800000}] >>

Clusters == 1..Len(cpu_infos)

AllFreqs == UNION {cpu_infos[c].freqs : c \in Clusters}

max_freq == CHOOSE f \in AllFreqs : \A g \in AllFreqs : g <= f
min_freq == CHOOSE f \in AllFreqs : \A g \in AllFreqs : f <= g

\* f64 factors: finite ones in thousandths, and the non-finite values
Finite(milli) == [kind |-> "finite", milli |-> milli]
NaN    == [kind |-> "nan", milli |-> 0]
PosInf == [kind |-> "inf", milli |-> 1]
NegInf == [kind |-> "inf", milli |-> -1]

\* (BASE_FREQ as f64 * factor) as isize : the cast truncates, saturates at
\* isize::MIN / isize::MAX and sends NaN to 0.
freq_delta(factor) ==
    LET per_milli == BASE_FREQ \div 1000 IN
    CASE factor.kind = "nan" -> 0
      [] factor.kind = "inf" -> IF factor.milli > 0 THEN IsizeMax ELSE IsizeMin
      [] OTHER ->
           IF factor.milli > IsizeMax \div per_milli THEN IsizeMax
           ELSE IF factor.milli < -(IsizeMax \div per_milli) THEN IsizeMin
           ELSE per_milli * factor.milli

\* isize::saturating_add
saturating_add(a, d) ==
    IF d > 0 /\ a > IsizeMax - d THEN IsizeMax
    ELSE IF d < 0 /\ a < IsizeMin - d THEN IsizeMin
    ELSE a + d

\* Ord::clamp (min_freq <= max_freq by construction in Controller::new)
clamp(x, lo, hi) == IF x < lo THEN lo ELSE IF x > hi THEN hi ELSE x

next_policy_freq_no_lower_clamp(freq, factor) ==
    LET x == saturating_add(freq, freq_delta(factor)) IN
    IF x > max_freq THEN max_freq ELSE x

\* self.policy_freq.saturating_add(..).clamp(self.min_freq, self.max_freq)
next_policy_freq(freq, factor) ==
    clamp(saturating_add(freq, freq_delta(factor)), min_freq, max_freq)

\* ---- the collaborators whose code is not in this source set
\* Info::write_freq(freq, file_handler, weight) / Info::reset_freq(file_handler):
\* the request reaches the policy's file, or the call returns an I/O error
\* and the file keeps what it had.
Request(freq, weight) == [mode |-> "freq", freq |-> freq, weight |-> weight]
DefaultRequest == [mode |-> "default", freq |-> 0, weight |-> 0]

write_freq_event(c, freq, weight, fails) ==
    Event("write_freq", "", 0, "", cpu_infos[c].policy, freq, weight, c \notin fails)

reset_freq_event(c, fails) ==
    Event("reset_freq", "", 0, "", cpu_infos[c].policy, 0, 0, c \notin fails)

\* WeightedCalculator: update(process) refreshes and accumulates the data of
\* the process, clear() drops what was accumulated.
weighted_calculator_update(data, process) == data \cup {process}
weighted_calculator_clear(data) == {}

\* weights.weight(&policy.cpus).unwrap_or(1.0) ; 0 stands for None
weight_or_default(weights, c) == IF weights[c] = 0 THEN 10 ELSE weights[c]

\* ---- Controller::new
ControllerNew ==
    /\ policy_freq = max_freq
    /\ cluster_req = [c \in Clusters |-> DefaultRequest]
    /\ weighted_calculator = {}
    /\ crashed = FALSE

\* ---- Controller::init_game
init_game_effects(fails) ==
    Broadcast("InitCpuFreq", 0, "")
        \o [c \in Clusters |-> write_freq_event(c, max_freq, 10, fails)]

init_game(fails) ==
    /\ policy_freq' = max_freq
    /\ cluster_req' = [c \in Clusters |->
            IF c \in fails THEN cluster_req[c] ELSE Request(max_freq, 10)]
    /\ UNCHANGED <<weighted_calculator, crashed>>

\* ---- Controller::init_default
init_default_writes_max(fails) ==
    /\ weighted_calculator' = weighted_calculator_clear(weighted_calculator)
    /\ policy_freq' = max_freq
    /\ cluster_req' = [c \in Clusters |->
            IF c \in fails THEN cluster_req[c] ELSE Request(max_freq, 10)]
    /\ UNCHANGED crashed

init_default_effects(fails) ==
    Broadcast("ResetCpuFreq", 0, "")
        \o [c \in Clusters |-> reset_freq_event(c, fails)]

init_default(fails) ==
    /\ weighted_calculator' = weighted_calculator_clear(weighted_calculator)
    /\ policy_freq' = max_freq
    /\ cluster_req' = [c \in Clusters |->
            IF c \in fails THEN cluster_req[c] ELSE DefaultRequest]
    /\ UNCHANGED crashed

\* ---- Controller::fas_update_freq
\* upd is what weighted_calculator.update(process) returned: ok = FALSE is
\* the failed refresh, on which .unwrap() panics before the loop.
fas_update_freq_effects(factor, upd, fails) ==
    IF upd.ok
    THEN [c \in Clusters |->
            write_freq_event(c, next_policy_freq(policy_freq, factor),
                             weight_or_default(upd.weights, c), fails)]
    ELSE <<>>

fas_update_freq(process, factor, upd, fails) ==
    /\ policy_freq' = next_policy_freq(policy_freq, factor)
    /\ IF upd.ok
       THEN /\ weighted_calculator' =
                    weighted_calculator_update(weighted_calculator, process)
            /\ cluster_req' = [c \in Clusters |->
                    IF c \in fails THEN cluster_req[c]
                    ELSE Request(next_policy_freq(policy_freq, factor),
                                 weight_or_default(upd.weights, c))]
            /\ UNCHANGED crashed
       ELSE /\ crashed' = TRUE
            /\ UNCHANGED <<weighted_calculator, cluster_req>>

\* =========================================================================
\*  src/framework/scheduler/looper/utils.rs : Looper
\* =========================================================================

DELAY_TIME == 3

Pids == {1, 2, 3}

\* get_process_name(pid), when it succeeds
PkgOf(pid) == CASE pid = 1 -> "game.a" [] pid = 2 -> "game.b" [] OTHER -> "launcher"

\* self.config.target_fps(&pkg) ; 0 stands for None
config_target_fps(pkg) ==
    CASE pkg = "game.a" -> 60 [] pkg = "game.b" -> 30 [] OTHER -> 0

\* FasData { pid, frametime } ; frametime in ms, 0 is Duration::ZERO
FrameTimesMs == {0, 16}
FasDataSet == [pid : Pids, frametime : FrameTimesMs]

\* ---- Buffer (its code is not in this source set)
\* A sample keeps the pid of the event it came from.
Sample(frametime, pid) == [frametime |-> frametime, pid |-> pid]

\* the window keeps its newest samples
trim(w) == IF Len(w) > MaxWindow THEN SubSeq(w, Len(w) - MaxWindow + 1, Len(w)) ELSE w

\* Unusable until the window has filled
buffer_state(w) == IF Len(w) >= MaxWindow THEN "Usable" ELSE "Unusable"

\* Buffer::new(target_fps, pid, pkg)
BufferNew(target_fps, pid, pkg) ==
    [pid |-> pid, pkg |-> pkg, target_fps |-> target_fps,
     frametimes |-> <<>>, state |-> "Unusable"]

\* buffer.push_frametime(frametime, &extension)
push_frametime(b, sample) ==
    LET w == trim(Append(b.frametimes, sample)) IN
    [b EXCEPT !.frametimes = w, !.state = buffer_state(w)]

None == <<>>
Some(x) == <<x>>

LooperNew ==
    /\ state = "NotWorking"
    /\ delay_timer = 0
    /\ now = 0
    /\ buffer = None
    /\ topapp_pids = {}

\* ---- Looper::disable_fas
disable_fas_effects_from_waiting(fails) ==
    IF state \in {"Working", "Waiting"}
    THEN <<Cleaner("undo_cleanup")>> \o init_default_effects(fails)
            \o Broadcast("StopFas", 0, "")
    ELSE <<>>

disable_fas_effects(fails) ==
    IF state = "Working"
    THEN <<Cleaner("undo_cleanup")>> \o init_default_effects(fails)
            \o Broadcast("StopFas", 0, "")
    ELSE <<>>

disable_fas(fails) ==
    /\ state' = "NotWorking"
    /\ IF state = "Working" THEN init_default(fails) ELSE UNCHANGED ctl_vars
    /\ UNCHANGED delay_timer

\* ---- Looper::enable_fas
delay_elapsed_at_delay == now - delay_timer >= DELAY_TIME

delay_elapsed_operands_swapped == delay_timer - now > DELAY_TIME

\* self.delay_timer.elapsed() > DELAY_TIME
delay_elapsed == now - delay_timer > DELAY_TIME

enable_fas_effects(fails) ==
    CASE state = "NotWorking" -> Broadcast("StartFas", 0, "")
      [] state = "Waiting" /\ delay_elapsed ->
            <<Cleaner("cleanup")>> \o init_game_effects(fails)
      [] OTHER -> <<>>

enable_fas(fails) ==
    CASE state = "NotWorking" ->
            /\ state' = "Waiting"
            /\ delay_timer' = now
            /\ UNCHANGED ctl_vars
      [] state = "Waiting" /\ delay_elapsed ->
            /\ state' = "Working"
            /\ init_game(fails)
            /\ UNCHANGED delay_timer
      [] OTHER -> UNCHANGED <<state, delay_timer, ctl_vars>>

\* ---- Looper::retain_topapp
buffer_left_topapp == buffer # None /\ buffer[1].pid \notin topapp_pids

retain_topapp_effects(fails) ==
    IF buffer_left_topapp
    THEN Broadcast("UnloadFas", buffer[1].pid, buffer[1].pkg)
            \o disable_fas_effects(fails)
    ELSE IF buffer = None THEN disable_fas_effects(fails)
    ELSE enable_fas_effects(fails)

retain_topapp_tests_buffer_before_removal(fails) ==
    /\ buffer' = IF buffer_left_topapp THEN None ELSE buffer
    /\ IF buffer = None
       THEN disable_fas(fails)
       ELSE enable_fas(fails)

retain_topapp_keeps_buffer(fails) ==
    /\ buffer' = buffer
    /\ IF buffer_left_topapp \/ buffer = None
       THEN disable_fas(fails)
       ELSE enable_fas(fails)

retain_topapp(fails) ==
    /\ buffer' = IF buffer_left_topapp THEN None ELSE buffer
    /\ IF buffer_left_topapp \/ buffer = None
       THEN disable_fas(fails)
       ELSE enable_fas(fails)

\* ---- Looper::buffer_update
\* name_ok: get_process_name(d.pid) returned Ok
buffer_update_rejects_pid_only(d) == d.pid \notin topapp_pids

buffer_update_rejects(d) == d.pid \notin topapp_pids \/ d.frametime = 0

buffer_update_creates(d, name_ok) ==
    /\ ~buffer_update_rejects(d)
    /\ buffer = None
    /\ name_ok
    /\ config_target_fps(PkgOf(d.pid)) # 0

buffer_update_ret(d, name_ok) ==
    IF buffer_update_rejects(d) THEN "None"
    ELSE IF buffer # None
         THEN push_frametime(buffer[1], Sample(d.frametime, d.pid)).state
    ELSE IF buffer_update_creates(d, name_ok) THEN "Unusable"
    ELSE "None"

buffer_update_effects(d, name_ok) ==
    IF buffer_update_creates(d, name_ok)
    THEN Broadcast("LoadFas", d.pid, PkgOf(d.pid))
    ELSE <<>>

buffer_update(d, name_ok) ==
    buffer' =
        IF buffer_update_rejects(d) THEN buffer
        ELSE IF buffer # None
             THEN Some(push_frametime(buffer[1], Sample(d.frametime, d.pid)))
        ELSE IF buffer_update_creates(d, name_ok)
             THEN Some(push_frametime(
                        BufferNew(config_target_fps(PkgOf(d.pid)), d.pid, PkgOf(d.pid)),
                        Sample(d.frametime, d.pid)))
        ELSE None

\* =========================================================================
\*  fas-rs-fw Scheduler::init_load / process_unload (frame.rs)
\* =========================================================================

\* the nominal frame budget that sizes the sampling horizon, in ms
FrameBudgetMs == 40

\* 2^32 = 40 * U32Div40 + U32Mod40: frame_windows above U32Div40 overflow
\* the u32 product frame_windows * 40
U32Div40 == 107374182
U32Mod40 == 16

\* (frame_windows * 40) as the u32 multiplication computes it (wrapping), for
\* frame_windows < 2 * U32Div40; the result is widened to u64 milliseconds
fps_time_ms(frame_windows) ==
    IF frame_windows <= U32Div40
    THEN frame_windows * FrameBudgetMs
    ELSE (frame_windows - U32Div40) * FrameBudgetMs - U32Mod40

\* VirtualFrameSensor: resume(frame_windows, fps_time) starts it with that
\* window and horizon, pause() stops it; a failed call leaves it as it was
sensor_resume(s, frame_windows, fps_time, ok) ==
    IF ok
    THEN [running |-> TRUE, frame_windows |-> frame_windows, fps_time |-> fps_time]
    ELSE s

sensor_pause(s, ok) == IF ok THEN [s EXCEPT !.running = FALSE] ELSE s

SchedCall(op, ret, frame_windows, fps_time, calls) ==
    [op |-> op, ret |-> ret, frame_windows |-> frame_windows,
     fps_time |-> fps_time, calls |-> calls]

SchedulerNew ==
    /\ sensor = [running |-> FALSE, frame_windows |-> 0, fps_time |-> 0]
    /\ plugged = FALSE
    /\ sched = SchedCall("new", "Ok", 0, 0, <<>>)

\* the `?` after each step: which error, if any, the function returns
step_ret(sensor_ok, controller_ok) ==
    IF ~sensor_ok THEN "Err(sensor)"
    ELSE IF ~controller_ok THEN "Err(controller)"
    ELSE "Ok"

init_load_calls_without_early_return(sensor_ok) == <<"resume", "plug_in">>

\* the collaborator calls init_load makes, in order
init_load_calls(sensor_ok) ==
    IF sensor_ok THEN <<"resume", "plug_in">> ELSE <<"resume">>

init_load(frame_windows, sensor_ok, controller_ok) ==
    LET fps_time == fps_time_ms(frame_windows)
        calls == init_load_calls(sensor_ok)
        ret == step_ret(sensor_ok, controller_ok)
    IN  /\ sensor' = sensor_resume(sensor, frame_windows, fps_time, sensor_ok)
        /\ plugged' = IF Len(calls) = 2 /\ controller_ok THEN TRUE ELSE plugged
        /\ sched' = SchedCall("init_load", ret, frame_windows,
                              IF ret = "Ok" THEN fps_time ELSE 0, calls)

\* the collaborator calls process_unload makes, in order
process_unload_calls(sensor_ok) ==
    IF sensor_ok THEN <<"pause", "plug_out">> ELSE <<"pause">>

process_unload(sensor_ok, controller_ok) ==
    LET calls == process_unload_calls(sensor_ok)
    IN  /\ sensor' = sensor_pause(sensor, sensor_ok)
        /\ plugged' = IF Len(calls) = 2 /\ controller_ok THEN FALSE ELSE plugged
        /\ sched' = SchedCall("process_unload", step_ret(sensor_ok, controller_ok),
                              0, 0, calls)

\* =========================================================================
\*  Controller::scale_factor (cpu_common/mod.rs)
\* =========================================================================

\* An f64 is modelled by the exact rational the arithmetic rounds, in lowest
\* terms, with the sign kept apart as IEEE 754 keeps it (so that -0.0 exists).
RECURSIVE Gcd(_, _)
Gcd(a, b) == IF b = 0 THEN a ELSE Gcd(b, a % b)

F64(neg, num, den) ==
    LET g == Gcd(num, den)
    IN  [neg |-> neg, num |-> num \div g, den |-> den \div g]

\* a / b of two non-negative values, b > 0
F64Div(a, b) == F64(FALSE, a, b)

F64Mul(x, y) == F64(x.neg # y.neg, x.num * y.num, x.den * y.den)

\* the operand -1.0 and unary minus
F64MinusOne == F64(TRUE, 1, 1)
F64Neg(x) == [x EXCEPT !.neg = ~x.neg]

\* ==, < and > of f64: -0.0 == 0.0
F64IsZero(x) == x.num = 0
F64Eq(x, y) == (F64IsZero(x) /\ F64IsZero(y)) \/ x = y
F64IsPositive(x) == ~F64IsZero(x) /\ ~x.neg
F64IsNegative(x) == ~F64IsZero(x) /\ x.neg

ScaleBase == 120

scale_factor_without_negation(target_fps, frame, target) ==
    IF frame > target
    THEN F64Mul(F64Div(frame - target, target), F64Div(ScaleBase, target_fps))
    ELSE F64Mul(F64Div(target - frame, target), F64Div(ScaleBase, target_fps))

\* durations are in nanoseconds (as_nanos)
scale_factor(target_fps, frame, target) ==
    IF frame > target
    THEN LET factor_a == F64Div(frame - target, target)
             factor_b == F64Div(ScaleBase, target_fps)
         IN  F64Mul(factor_a, factor_b)
    ELSE LET factor_a == F64Div(target - frame, target)
             factor_b == F64Div(ScaleBase, target_fps)
         IN  F64Mul(F64Mul(factor_a, factor_b), F64MinusOne)

ScaleCall(target_fps, target, d, up, down) ==
    [target_fps |-> target_fps, target |-> target, d |-> d, up |-> up, down |-> down]

ScaleIdle == scale = ScaleCall(0, 0, 0, F64(FALSE, 0, 1), F64(FALSE, 0, 1))

\* =========================================================================
\*  config::read::wait_and_read (framework/config/read.rs)
\* =========================================================================

\* What the user config file can hold: nothing readable, text that does not
\* parse, or the text of a profile.
Profiles == {"init", "std", "user_a", "user_b"}
FileContents == {"unreadable", "garbage"} \cup Profiles

\* config.scene_game_list of each profile
scene_game_list_flag(profile) == profile # "user_b"

\* ConfigData: the profile it was parsed from, and whether its
\* scene_game_list holds the games read from the scene profile
ConfigData(profile, scene_games) == [profile |-> profile, scene_games |-> scene_games]

std_config == ConfigData("std", FALSE)

RETRY_ROLLBACK == 3
RETRY_FINAL == 10

\* check_counter_final: [retry_count, toml] after it
check_counter_final(count, snapshot) ==
    IF count > RETRY_FINAL
    THEN [retry_count |-> 0, toml |-> std_config, fell_back |-> TRUE]
    ELSE [retry_count |-> count, toml |-> snapshot, fell_back |-> FALSE]

\* retry_count after fs::read_to_string(path) succeeded
count_after_read(count) == 0

Min(a, b) == IF a < b THEN a ELSE b

Attempts(parse_fails, fails, rolled_back, fell_back) ==
    [parse_fails |-> parse_fails, fails |-> fails,
     rolled_back |-> rolled_back, fell_back |-> fell_back]

NoAttempts == Attempts(0, 0, FALSE, FALSE)

ConfigStart ==
    /\ retry_count = 0
    /\ toml = ConfigData("init", FALSE)
    /\ config_file = "user_a"
    /\ pc_config = "loop"
    /\ attempts = NoAttempts

\* One pass of the loop body, up to its `continue` or to wait_until_update.
\* ser_ok, write_ok: toml::to_string and fs::write of the rollback;
\* scene_ok: read_scene_games found and parsed the scene profile;
\* watch: wait_until_update blocks, returns at once (no watch could be
\* added), or fails (Inotify::init).
wait_and_read_pass(ser_ok, write_ok, scene_ok, watch) ==
    LET final == check_counter_final(retry_count, toml)
        fell == attempts.fell_back \/ final.fell_back
    IN  IF config_file = "unreadable"
        THEN /\ retry_count' = final.retry_count + 1
             /\ toml' = final.toml
             /\ attempts' = Attempts(0, Min(attempts.fails + 1, MaxFails),
                                     attempts.rolled_back, fell)
             /\ pc_config' = "loop"
             /\ UNCHANGED config_file
        ELSE LET count == count_after_read(final.retry_count)
             IN  IF config_file = "garbage"
                 THEN LET rollback == count > RETRY_ROLLBACK
                      IN  /\ toml' = final.toml
                          /\ attempts' =
                                Attempts(Min(attempts.parse_fails + 1, MaxFails),
                                         Min(attempts.fails + 1, MaxFails),
                                         attempts.rolled_back \/ rollback, fell)
                          /\ IF rollback /\ ~ser_ok
                             THEN /\ pc_config' = "exited"
                                  /\ retry_count' = count
                                  /\ UNCHANGED config_file
                             ELSE /\ pc_config' = "loop"
                                  /\ config_file' =
                                        IF rollback /\ write_ok
                                        THEN final.toml.profile ELSE config_file
                                  /\ retry_count' =
                                        (IF rollback /\ write_ok THEN 0 ELSE count) + 1
                 ELSE /\ toml' = ConfigData(config_file,
                                    scene_game_list_flag(config_file) /\ scene_ok)
                      /\ retry_count' = 0
                      /\ attempts' = NoAttempts
                      /\ pc_config' = CASE watch = "blocks" -> "wait"
                                        [] watch = "returns" -> "loop"
                                        [] OTHER -> "exited"
                      /\ UNCHANGED config_file

\* ---- what an extension has been told so far (history)
\* loaded: the pid and package of the LoadFas not yet answered by an
\* UnloadFas; started: a StartFas not yet answered by a StopFas.
Notified(loaded, started) == [loaded |-> loaded, started |-> started]

NothingNotified == Notified(<<>>, FALSE)

ObserveOne(n, e) ==
    IF e.kind # "ApiV0" THEN n
    ELSE CASE e.name = "LoadFas" ->
                [n EXCEPT !.loaded = <<[pid |-> e.pid, pkg |-> e.pkg]>>]
           [] e.name = "UnloadFas" -> [n EXCEPT !.loaded = <<>>]
           [] e.name = "StartFas" -> [n EXCEPT !.started = TRUE]
           [] e.name = "StopFas" -> [n EXCEPT !.started = FALSE]
           [] OTHER -> n

RECURSIVE Observed(_, _)
Observed(n, es) ==
    IF es = <<>> THEN n ELSE Observed(ObserveOne(n, Head(es)), Tail(es))

Observe == notified' = Observed(notified, effects')

\* =========================================================================
\*  Operations as steps
\* =========================================================================

Call(op, ret, pid, frametime, factor) ==
    [op |-> op, ret |-> ret, pid |-> pid, frametime |-> frametime, factor |-> factor]

NoCall == Call("new", "()", 0, 0, NaN)

Init ==
    /\ FrameIdle
    /\ LooperNew
    /\ ControllerNew
    /\ call = NoCall
    /\ effects = <<>>
    /\ notified = NothingNotified
    /\ SchedulerNew
    /\ ScaleIdle
    /\ ConfigStart

\* ---- inputs
Factors ==
    {NaN, PosInf, NegInf, Finite(-4000000), Finite(-1000), Finite(1000),
     Finite(4000000)}

WeightChoices == {0, 5}

UpdateOk(weights) == [ok |-> TRUE, weights |-> weights]
UpdateErr == [ok |-> FALSE, weights |-> [c \in Clusters |-> 0]]
NoWeights == UpdateOk([c \in Clusters |-> 0])

UpdateResults == {UpdateErr} \cup {UpdateOk(w) : w \in [Clusters -> WeightChoices]}

FailSets == SUBSET Clusters

\* the process argument of fas_update_freq
CtlPids == {1}

\* ---- SpecFrame
ProcessLoadStep ==
    /\ ProcessLoad
    /\ UNCHANGED <<looper_vars, ctl_vars, obs_vars, other_vars>>

NextFrame == ProcessLoadStep

SpecFrame == Init /\ [][NextFrame]_vars

\* ---- SpecCtl : the Controller as an API
CtlInitGame ==
    /\ ~crashed
    /\ \E fails \in FailSets :
        /\ init_game(fails)
        /\ effects' = init_game_effects(fails)
    /\ call' = Call("init_game", "()", 0, 0, NaN)
    /\ UNCHANGED <<other_vars, frame_vars, looper_vars>>
    /\ Observe

CtlInitDefault ==
    /\ ~crashed
    /\ \E fails \in FailSets :
        /\ init_default(fails)
        /\ effects' = init_default_effects(fails)
    /\ call' = Call("init_default", "()", 0, 0, NaN)
    /\ UNCHANGED <<other_vars, frame_vars, looper_vars>>
    /\ Observe

CtlFasUpdateFreq ==
    /\ ~crashed
    /\ \E process \in CtlPids, factor \in Factors, upd \in UpdateResults, fails \in FailSets :
        /\ fas_update_freq(process, factor, upd, fails)
        /\ effects' = fas_update_freq_effects(factor, upd, fails)
        /\ call' = Call("fas_update_freq", IF upd.ok THEN "()" ELSE "panic",
                        process, 0, factor)
    /\ UNCHANGED <<other_vars, frame_vars, looper_vars>>
    /\ Observe

NextCtl == CtlInitGame \/ CtlInitDefault \/ CtlFasUpdateFreq

SpecCtl == Init /\ [][NextCtl]_vars

\* ---- Spec : the Looper and the Controller it owns
LooperFailSets == {{}, Clusters}
LooperFactors == {Finite(-2000)}

RetainTopapp ==
    /\ \E fails \in LooperFailSets :
        /\ retain_topapp(fails)
        /\ effects' = retain_topapp_effects(fails)
    /\ call' = Call("retain_topapp", "()", 0, 0, NaN)
    /\ UNCHANGED <<other_vars, frame_vars, now, topapp_pids>>
    /\ Observe

EnableFas ==
    /\ \E fails \in LooperFailSets :
        /\ enable_fas(fails)
        /\ effects' = enable_fas_effects(fails)
    /\ call' = Call("enable_fas", "()", 0, 0, NaN)
    /\ UNCHANGED <<other_vars, frame_vars, now, topapp_pids, buffer>>
    /\ Observe

DisableFas ==
    /\ \E fails \in LooperFailSets :
        /\ disable_fas(fails)
        /\ effects' = disable_fas_effects(fails)
    /\ call' = Call("disable_fas", "()", 0, 0, NaN)
    /\ UNCHANGED <<other_vars, frame_vars, now, topapp_pids, buffer>>
    /\ Observe

BufferUpdate ==
    /\ \E d \in FasDataSet, name_ok \in BOOLEAN :
        /\ buffer_update(d, name_ok)
        /\ effects' = buffer_update_effects(d, name_ok)
        /\ call' = Call("buffer_update", buffer_update_ret(d, name_ok),
                        d.pid, d.frametime, NaN)
    /\ UNCHANGED <<other_vars, frame_vars, state, delay_timer, now, topapp_pids, ctl_vars>>
    /\ Observe

FasUpdateFreq ==
    /\ \E factor \in LooperFactors :
        /\ fas_update_freq(1, factor, NoWeights, {})
        /\ effects' = fas_update_freq_effects(factor, NoWeights, {})
        /\ call' = Call("fas_update_freq", "()", 1, 0, factor)
    /\ UNCHANGED <<other_vars, frame_vars, looper_vars>>
    /\ Observe

\* the environment: time passes, the windows watcher refreshes its set
Env == Call("env", "()", 0, 0, NaN)

Tick ==
    /\ now < MaxTime
    /\ now' = now + 1
    /\ call' = Env
    /\ effects' = <<>>
    /\ UNCHANGED <<other_vars, frame_vars, state, delay_timer, buffer, topapp_pids, ctl_vars>>
    /\ Observe

TopappChange ==
    /\ \E s \in SUBSET Pids :
        /\ s # topapp_pids
        /\ topapp_pids' = s
    /\ call' = Env
    /\ effects' = <<>>
    /\ UNCHANGED <<other_vars, frame_vars, state, delay_timer, now, buffer, ctl_vars>>
    /\ Observe

Next ==
    \/ RetainTopapp
    \/ EnableFas
    \/ DisableFas
    \/ BufferUpdate
    \/ FasUpdateFreq
    \/ Tick
    \/ TopappChange

Spec == Init /\ [][Next]_vars

\* ---- SpecLoop : the Looper driven by its control loop only
NextLoop ==
    \/ RetainTopapp
    \/ BufferUpdate
    \/ Tick
    \/ TopappChange

SpecLoop == Init /\ [][NextLoop]_vars

\* ---- SpecLive : the control loop keeps calling retain_topapp on its
\* cadence, and the clock keeps advancing (up to MaxTime)
Fairness == WF_vars(RetainTopapp) /\ WF_vars(Tick)

SpecLive == SpecLoop /\ Fairness

\* ---- SpecSched : activation and deactivation of the scheduler
\* small windows, and the first one whose product overflows 32 bits
FrameWindowsSet == {0, 1, 2, 5, 10, U32Div40 + 1}

InitLoad ==
    /\ \E frame_windows \in FrameWindowsSet, sensor_ok \in BOOLEAN,
          controller_ok \in BOOLEAN :
        init_load(frame_windows, sensor_ok, controller_ok)
    /\ UNCHANGED <<frame_vars, looper_vars, ctl_vars, obs_vars, scale, config_vars>>

ProcessUnload ==
    /\ \E sensor_ok \in BOOLEAN, controller_ok \in BOOLEAN :
        process_unload(sensor_ok, controller_ok)
    /\ UNCHANGED <<frame_vars, looper_vars, ctl_vars, obs_vars, scale, config_vars>>

NextSched == InitLoad \/ ProcessUnload

SpecSched == Init /\ [][NextSched]_vars

\* ---- SpecScale : scale_factor on a frame time d above and d below target
ScaleFpsSet == {1, 24, 30, 60, 90, 120}
ScaleTargets == {8333333, 11111111, 16666666}
ScaleDeltas == {0, 1, 500000, 1000000, 4000000, 8333333, 11111111, 16666666}

ScaleFactor ==
    /\ \E target_fps \in ScaleFpsSet, target \in ScaleTargets, d \in ScaleDeltas :
        /\ d <= target
        /\ scale' = ScaleCall(target_fps, target, d,
                              scale_factor(target_fps, target + d, target),
                              scale_factor(target_fps, target - d, target))
    /\ UNCHANGED <<frame_vars, looper_vars, ctl_vars, obs_vars, sched_vars, config_vars>>

NextScale == ScaleFactor

SpecScale == Init /\ [][NextScale]_vars

\* ---- SpecConfig : the config reload thread and the user editing the file
WatchResults == {"blocks", "returns", "fails"}

WaitAndReadPass ==
    /\ pc_config = "loop"
    /\ \E ser_ok \in BOOLEAN, write_ok \in BOOLEAN, scene_ok \in BOOLEAN,
          watch \in WatchResults :
        wait_and_read_pass(ser_ok, write_ok, scene_ok, watch)
    /\ UNCHANGED <<frame_vars, looper_vars, ctl_vars, obs_vars, sched_vars, scale>>

\* the user (or anything else) changes what the file holds
FileEdit ==
    /\ pc_config # "exited"
    /\ \E c \in FileContents :
        /\ c # config_file
        /\ config_file' = c
    /\ UNCHANGED <<retry_count, toml, pc_config, attempts>>
    /\ UNCHANGED <<frame_vars, looper_vars, ctl_vars, obs_vars, sched_vars, scale>>

\* an inotify event on the config file or the scene profile ends the wait
WatchEvent ==
    /\ pc_config = "wait"
    /\ pc_config' = "loop"
    /\ UNCHANGED <<retry_count, toml, config_file, attempts>>
    /\ UNCHANGED <<frame_vars, looper_vars, ctl_vars, obs_vars, sched_vars, scale>>

NextConfig == WaitAndReadPass \/ FileEdit \/ WatchEvent

SpecConfig == Init /\ [][NextConfig]_vars

\* =========================================================================
\*  Claims about fas-rs-fw/src/scheduler/frame.rs, checked under SpecFrame
\* =========================================================================

Ticked == pc_frame = "ticked"

\* what jank returned to the last process_load
JankRet == jank(sensor_frametimes, sensor_fps, tick_target_fps)

WindowEmpty == sensor_frametimes = <<>>

\* every frame duration is at most (1s / target_fps) * 30 / 29
AllFramesWithinBound ==
    \A i \in 1..Len(sensor_frametimes) :
        sensor_frametimes[i] <= jank_bound(tick_target_fps)

SomeFrameOverBound ==
    \E i \in 1..Len(sensor_frametimes) :
        sensor_frametimes[i] > jank_bound(tick_target_fps)

SomeFrameAtBound ==
    \E i \in 1..Len(sensor_frametimes) :
        sensor_frametimes[i] = jank_bound(tick_target_fps)

\* C1 as stated: every process_load issues exactly one command, limit() when
\* the detector reports jank (the empty window included) and release() when
\* it reports smooth.
C1_AsStated ==
    Ticked => controller_cmds = <<IF JankRet THEN "limit" ELSE "release">>

\* C1 amended: every process_load issues exactly one command and touches
\* nothing else; the command is release() when the detector reports jank
\* (the empty window included) and limit() when it reports smooth.
C1_OneCommandReleaseOnJank ==
    /\ Ticked =>
        /\ Len(controller_cmds) = 1
        /\ JankRet => controller_cmds[1] = "release"
        /\ ~JankRet => controller_cmds[1] = "limit"
        /\ WindowEmpty => controller_cmds[1] = "release"
    /\ effects = <<>> /\ call = NoCall
    /\ LooperNew /\ ControllerNew

C1_Witness ==
    /\ Ticked
    /\ ~WindowEmpty
    /\ ~JankRet
    /\ controller_cmds = <<"limit">>

C3_WorstFrameDominates ==
    Ticked =>
        /\ SomeFrameOverBound => JankRet
        /\ (sensor_frametimes = ScenarioWindow /\ tick_target_fps = 60) => JankRet
        /\ (tick_target_fps >= 3 /\ SomeFrameAtBound /\ AllFramesWithinBound
                /\ sensor_fps > tick_target_fps - 3) => ~JankRet

C3_Witness ==
    /\ Ticked
    /\ sensor_frametimes = ScenarioWindow
    /\ tick_target_fps = 60
    /\ sensor_fps = 58
    /\ JankRet
    /\ controller_cmds = <<"release">>

\* =========================================================================
\*  Claims about the Controller, checked under SpecCtl
\* =========================================================================

Named(es, names) == {i \in 1..Len(es) : es[i].name \in names}
WritesTo(es, c) ==
    {i \in 1..Len(es) : IsWrite(es[i]) /\ es[i].policy = cpu_infos[c].policy}

\* C4: after any sequence of init_game, init_default and fas_update_freq,
\* with any control factor, min_freq <= policy_freq <= max_freq.
C4_PolicyFreqInRange == min_freq <= policy_freq /\ policy_freq <= max_freq

C4_Witness ==
    /\ call.op = "fas_update_freq"
    /\ call.factor = NegInf
    /\ policy_freq = min_freq
    /\ min_freq < max_freq

\* C9 as stated: after init_game and after init_default the weight
\* calculator holds no data accumulated before the reset.
C9_AsStated ==
    call.op \in {"init_game", "init_default"} => weighted_calculator = {}

\* C10 as stated: every init_game, init_default and fas_update_freq call
\* completes and attempts exactly one write per cluster, whichever of the
\* writes fail, and leaves the lifecycle state alone.
C10_AsStated ==
    call.op \in {"init_game", "init_default", "fas_update_freq"} =>
        /\ \A c \in Clusters : Cardinality(WritesTo(effects, c)) = 1
        /\ call.ret = "()"
        /\ ~crashed
        /\ state = "NotWorking"

\* =========================================================================
\*  Claims about the Looper, checked under Spec
\* =========================================================================

\* enable_fas ran in this step, called directly or by retain_topapp
EnableFasCalled ==
    \/ call'.op = "enable_fas"
    \/ call'.op = "retain_topapp" /\ buffer' # None

\* C5: init_game and the cleanup hook run only in an enable_fas call made in
\* Waiting more than DELAY_TIME after the NotWorking -> Waiting transition of
\* this waiting period; the enable_fas call that makes that transition, and
\* one made in Waiting at or before DELAY_TIME, leaves the controller as it
\* was and writes no frequency.
C5_ResetOnlyAfterDelay ==
    [][ /\ Named(effects', {"InitCpuFreq", "cleanup"}) # {} =>
            /\ EnableFasCalled
            /\ state = "Waiting"
            /\ now - delay_timer > DELAY_TIME
            /\ state' = "Working"
        /\ (state = "NotWorking" /\ state' = "Waiting") => delay_timer' = now
        /\ (state = "Waiting" /\ state' # "NotWorking") => delay_timer' = delay_timer
        /\ (EnableFasCalled /\ (state = "NotWorking"
                    \/ (state = "Waiting" /\ now - delay_timer <= DELAY_TIME))) =>
            /\ UNCHANGED ctl_vars
            /\ \A i \in 1..Len(effects') :
                    ~IsWrite(effects'[i]) /\ effects'[i].kind # "cleaner"
            /\ state' = "Waiting"
      ]_vars

C5_Witness ==
    /\ call.op = "enable_fas"
    /\ state = "Working"
    /\ now - delay_timer > DELAY_TIME
    /\ Named(effects, {"cleanup"}) # {}
    /\ Named(effects, {"InitCpuFreq"}) # {}
    /\ \A c \in Clusters : cluster_req[c] = Request(max_freq, 10)

\* C6: disable_fas always leaves the state NotWorking; it has side effects
\* (undo_cleanup, the controller reset to default, StopFas) exactly when it
\* was called in Working; called in Waiting it only changes the state;
\* called in NotWorking it changes nothing.
C6_DisableFasEffects ==
    [][ call'.op = "disable_fas" =>
            /\ state' = "NotWorking"
            /\ (effects' # <<>>) <=> (state = "Working")
            /\ state = "Working" =>
                /\ Named(effects', {"undo_cleanup"}) # {}
                /\ Cardinality(Named(effects', {"ResetCpuFreq"})) = 3
                /\ Cardinality(Named(effects', {"StopFas"})) = 3
                /\ policy_freq' = max_freq
                /\ weighted_calculator' = {}
            /\ state # "Working" =>
                UNCHANGED <<ctl_vars, delay_timer, now, buffer, topapp_pids>>
            /\ state = "NotWorking" => UNCHANGED <<looper_vars, ctl_vars>>
      ]_vars

C6_Witness ==
    /\ call.op = "disable_fas"
    /\ state = "NotWorking"
    /\ Cardinality(Named(effects, {"StopFas"})) = 3
    /\ \A c \in Clusters : cluster_req[c] = DefaultRequest

\* C7: buffer_update with an event whose pid is not in the foreground set,
\* or whose frame duration is zero, returns None, leaves the Buffer (present
\* or absent) and the lifecycle state as they were, and notifies nobody.
C7_RejectedEventChangesNothing ==
    [][ (call'.op = "buffer_update"
            /\ (call'.pid \notin topapp_pids \/ call'.frametime = 0)) =>
            /\ call'.ret = "None"
            /\ UNCHANGED <<buffer, state>>
            /\ effects' = <<>>
      ]_vars

C7_Witness ==
    /\ call.op = "buffer_update"
    /\ call.pid \in topapp_pids
    /\ call.frametime = 0
    /\ call.ret = "None"
    /\ buffer # None
    /\ buffer[1].pid = call.pid

\* C8 as stated: every sample the Buffer holds came from an event of the
\* process the Buffer monitors.
C8_AsStated ==
    buffer # None =>
        \A i \in 1..Len(buffer[1].frametimes) :
            buffer[1].frametimes[i].pid = buffer[1].pid

\* C11 as stated: when the weight calculator cannot provide the data of the
\* process (its refresh fails, or it has no weight for a cluster),
\* fas_update_freq still completes and writes the requested frequency to
\* every cluster with weight 1.0.
C11_AsStated ==
    call.op = "fas_update_freq" =>
        /\ call.ret = "()"
        /\ ~crashed
        /\ \A c \in Clusters :
            \E i \in WritesTo(effects, c) : effects[i].freq = policy_freq

\* =========================================================================
\*  Claims about init_load / process_unload, checked under SpecSched
\* =========================================================================

AllWritesOk == \A i \in 1..Len(effects) : IsWrite(effects[i]) => effects[i].ok

\* C13: the last reset determines every cluster's requested frequency. After
\* init_default with all writes succeeding (in particular right after
\* init_game) every cluster's request is the system default and not the
\* maximum; after init_game with all writes succeeding every cluster's
\* request is the maximum frequency.
C13_LastResetWins ==
    AllWritesOk =>
        /\ call.op = "init_default" =>
            \A c \in Clusters :
                /\ cluster_req[c] = DefaultRequest
                /\ cluster_req[c] # Request(max_freq, 10)
        /\ call.op = "init_game" =>
            \A c \in Clusters : cluster_req[c] = Request(max_freq, 10)

\* init_default has reset every cluster to the system default
C13_Witness ==
    /\ call.op = "init_default"
    /\ AllWritesOk
    /\ \A c \in Clusters : cluster_req[c] = DefaultRequest

\* =========================================================================
\*  Claims about scale_factor, checked under SpecScale
\* =========================================================================

\* C14: scale_factor is odd in (frame - target). For target_fps > 0,
\* target > 0 and 0 <= d <= target,
\* scale_factor(target_fps, target + d, target) =
\* -scale_factor(target_fps, target - d, target); the result is positive
\* when frame > target, negative when frame < target, zero when they are
\* equal, and its magnitude is |frame - target| / target * 120 / target_fps.
C14_OddInError ==
    (scale.target_fps > 0 /\ scale.target > 0) =>
        /\ F64Eq(scale.up, F64Neg(scale.down))
        /\ scale.d > 0 => F64IsPositive(scale.up) /\ F64IsNegative(scale.down)
        /\ scale.d = 0 => F64IsZero(scale.up) /\ F64IsZero(scale.down)
        /\ \A r \in {scale.up, scale.down} :
            [num |-> r.num, den |-> r.den] =
                LET m == F64(FALSE, scale.d * 120, scale.target * scale.target_fps)
                IN  [num |-> m.num, den |-> m.den]

\* one millisecond off a 60 fps target, at 60 fps: about 0.12 up, -0.12 down
C14_Witness ==
    /\ scale.target_fps = 60
    /\ scale.target = 16666666
    /\ scale.d = 1000000
    /\ F64IsPositive(scale.up)
    /\ F64IsNegative(scale.down)

\* =========================================================================
\*  Claims about wait_and_read, checked under SpecConfig
\* =========================================================================

\* C15 as stated: when the user config file stays readable but cannot be
\* parsed, after more than 3 consecutive failed parse attempts the loop rolls
\* back (writes the last good configuration to the file). The fifth failed
\* attempt in a row is the first the code's `retry_count > 3` would let
\* through.
C15_AsStated == attempts.parse_fails >= 5 => attempts.rolled_back

\* C16 as stated: after more than 10 consecutive failed attempts to read or
\* parse the user config, the snapshot is replaced by the std profile and
\* the retry counter restarts at 0, for read failures and for parse failures
\* of a readable file alike. The twelfth failed attempt in a row starts with
\* the check that would find the counter above 10.
C16_AsStated == attempts.fails >= 12 => attempts.fell_back

\* =========================================================================
\*  Claims about the Looper under its control loop, checked under SpecLoop
\* =========================================================================

\* C17: after every completed retain_topapp, and after every buffer_update
\* between two retain_topapp calls, state and buffer agree: a state of
\* Waiting or Working implies a Buffer is installed, and it is the one the
\* last retain_topapp found with its pid in the foreground set; a
\* retain_topapp that ends with no Buffer ends in NotWorking; there is never
\* more than one Buffer.
C17_StateAndBufferAgree ==
    [][/\ call'.op = "retain_topapp" =>
            /\ buffer' = None => state' = "NotWorking"
            /\ state' \in {"Waiting", "Working"} =>
                /\ buffer' # None
                /\ buffer'[1].pid \in topapp_pids
       /\ (call'.op = "buffer_update" /\ state' \in {"Waiting", "Working"}) =>
                /\ state' = state
                /\ buffer # None
                /\ buffer' # None
                /\ buffer'[1].pid = buffer[1].pid
       /\ Len(buffer') <= 1
      ]_vars

\* a buffer_update completed in Working after the Buffer's pid left the
\* foreground set and before the next retain_topapp
C17_Witness ==
    /\ call.op = "buffer_update"
    /\ state = "Working"
    /\ buffer # None
    /\ buffer[1].pid \notin topapp_pids

\* C18: LoadFas and UnloadFas strictly alternate, starting with LoadFas;
\* each UnloadFas carries the pid and package of the LoadFas before it; and
\* LoadFas is fired only by a buffer_update for a foreground pid with a
\* non-zero frame time whose package has a configured target fps.
C18_LoadUnloadAlternate ==
    [][\A i \in 1..Len(effects') :
        LET e == effects'[i]
        IN  IsNotify(e) =>
                /\ e.name = "LoadFas" =>
                    /\ notified.loaded = <<>>
                    /\ call'.op = "buffer_update"
                    /\ call'.pid = e.pid
                    /\ call'.frametime # 0
                    /\ e.pid \in topapp_pids
                    /\ e.pkg = PkgOf(e.pid)
                    /\ config_target_fps(e.pkg) # 0
                /\ e.name = "UnloadFas" =>
                    notified.loaded = <<[pid |-> e.pid, pkg |-> e.pkg]>>
      ]_vars

\* an UnloadFas has answered a LoadFas
C18_Witness ==
    /\ call.op = "retain_topapp"
    /\ Named(effects, {"UnloadFas"}) # {}
    /\ notified.loaded = <<>>

\* C19 as stated: every StartFas is followed by a StopFas before the next
\* StartFas, and no StopFas is emitted without a preceding unmatched
\* StartFas.
C19_AsStated ==
    [][\A i \in 1..Len(effects') :
        LET e == effects'[i]
        IN  IsNotify(e) =>
                /\ e.name = "StartFas" => ~notified.started
                /\ e.name = "StopFas" => notified.started
      ]_vars

\* =========================================================================
\*  The lifecycle's progress, checked under SpecLive
\* =========================================================================

\* a Buffer is installed and its pid is in the foreground set
Installed == buffer # None /\ buffer[1].pid \in topapp_pids

\* C20: if a Buffer stays installed (its pid stays in the foreground set)
\* while retain_topapp keeps being called and time advances, the state
\* leaves NotWorking, then becomes Working (whenever the clock has room for
\* the settling delay), and stays Working for as long as the Buffer stays
\* installed: it leaves Working only in a retain_topapp that finds the
\* Buffer's pid out of the foreground set. Such a retain_topapp removes the
\* Buffer and returns the state to NotWorking in that same call.
C20_EventuallyWorking ==
    /\ (Installed /\ state = "NotWorking") ~> (state # "NotWorking" \/ ~Installed)
    /\ (Installed /\ state = "Waiting" /\ delay_timer + DELAY_TIME < MaxTime)
            ~> (state = "Working" \/ ~Installed)
    /\ [][(state = "Working" /\ state' # "Working") =>
            (call'.op = "retain_topapp" /\ buffer_left_topapp)]_vars
    /\ [][(call'.op = "retain_topapp" /\ buffer_left_topapp) =>
            (state' = "NotWorking" /\ buffer' = None)]_vars

\* the Buffer stayed installed through the settling delay and the state
\* became Working
C20_Witness ==
    /\ call.op = "retain_topapp"
    /\ state = "Working"
    /\ Installed
    /\ now - delay_timer > DELAY_TIME
====
